---------------------------- MODULE Spec2Model ----------------------------
(***************************************************************************)
(* Model of the region overlap resolver of action-autotag-textract-docker  *)
(* (src/src/process_bboxes.py): TextractPostProcessingBBoxes computes, for *)
(* one page of Textract layout regions, the ids of the regions to skip.    *)
(*                                                                         *)
(* Region indices are 0-based as in the Python code; the page is the       *)
(* sequence `layouts`, so region i is layouts[i + 1].  A region id is its  *)
(* index.  Coordinates and confidences are small integers (the code uses   *)
(* floats; only their order and sums are used).                            *)
(*                                                                         *)
(* Python iterates a set in an order the language does not define.  Every  *)
(* loop over a set whose result depends on the order is modelled as a      *)
(* nondeterministic choice: the next box_index of _group_overlaps, and the *)
(* member max() returns when several share the maximal confidence.         *)
(***************************************************************************)
EXTENDS Integers, Sequences, FiniteSets, TLC

\* Largest number of regions on a page of the general input family.
MaxRegions == 3

\* Largest number of regions on a page of the general family in the
\* specification with fairness.
MaxFairRegions == 2

\* Bounding boxes of the general input family: three unit boxes side by side
\* on one row (neighbours share an edge) and a wider one on a lower row.
Boxes ==
    { [x |-> 0, y |-> 0, width |-> 1, height |-> 1],
      [x |-> 1, y |-> 0, width |-> 1, height |-> 1],
      [x |-> 2, y |-> 0, width |-> 1, height |-> 1],
      [x |-> 0, y |-> 2, width |-> 2, height |-> 1] }

\* Confidence levels of the general input family.
Confidences == 1 .. 3

\* A Textract layout region: its bounding box and its confidence.
MakeLayout(b, c) ==
    [x |-> b.x, y |-> b.y, width |-> b.width, height |-> b.height, confidence |-> c]

\* A fixed physical page: six unit boxes in one row, each touching the next,
\* listed left to right with their confidences.  The detector may report
\* them in any order.
RowPage ==
    << MakeLayout([x |-> 0, y |-> 0, width |-> 1, height |-> 1], 1),
       MakeLayout([x |-> 1, y |-> 0, width |-> 1, height |-> 1], 5),
       MakeLayout([x |-> 2, y |-> 0, width |-> 1, height |-> 1], 6),
       MakeLayout([x |-> 3, y |-> 0, width |-> 1, height |-> 1], 4),
       MakeLayout([x |-> 4, y |-> 0, width |-> 1, height |-> 1], 3),
       MakeLayout([x |-> 5, y |-> 0, width |-> 1, height |-> 1], 2) >>

VARIABLES
    layouts,                 \* self.result.layouts: the page's regions
    pc,                      \* position in get_list_of_skipping_ids
    overlaps,                \* list of overlapping index pairs
    overlapping_bboxes_set,  \* indices that overlap some other region
    visited,                 \* box_index values _group_overlaps has iterated
    groups,                  \* list of groups (sets of indices)
    gidx,                    \* 0-based position of _get_removing_indexes in groups
    group,                   \* _process_group: the current (shrinking) group
    removed,                 \* _process_group: removed so far in this group
    max_score,               \* _process_group: winner of the latest round, -1 if none
    rounds,                  \* _process_group: rounds done on the current group
    winners,                 \* every index selected as max_score in this call
    remove_indexes,          \* _get_removing_indexes: union over the groups
    skipping,                \* result of get_list_of_skipping_ids
    call,                    \* "first", "again" (same page) or "filtered"
    first_skipping,          \* result of the first call on this page
    document,                \* the Textract result of every page of the PDF
    zoom,                    \* zoom the page views are acquired with
    page_number,             \* page process_page is working on, 0 if none
    processed,               \* page numbers process_page has been called for
    template_json_pages,     \* TemplateJsonCreator.template_json_pages
    table_data,              \* the Table passed to _create_table_cells
    cells,                   \* the list _create_table_cells returned
    command,                 \* the subcommand: "tag" or "template"
    entry,                   \* what is called: "main" or "process_file"
    args,                    \* zoom (in tenths), input path and output path
    mpc,                     \* position in main and process_file
    fault,                   \* the external call that fails, if any
    error,                   \* the exception that is propagating, "" if none
    log,                     \* the calls made on the PDFix document, in order
    exit_code,               \* exit status of the process, -1 while it runs
    thread,                  \* state of the update-check thread
    page_index,              \* loop variable of process_file
    template_json_dict,      \* result of create_json_dict_for_document
    opened,                  \* OpenDoc has been called
    written                  \* the final output file has been written

\* State of TemplateJsonCreator and of its caller.
tvars == << document, zoom, page_number, processed, template_json_pages, table_data, cells >>

\* State of main and of the two pipelines.
mvars ==
    << command, entry, args, mpc, fault, error, log, exit_code, thread, page_index,
       template_json_dict, opened, written >>

\* Neither main nor process_file runs.
NoMain ==
    /\ command = "none"
    /\ entry = "none"
    /\ args = [zoom |-> 20, input |-> << >>, output |-> << >>]
    /\ mpc = "none"
    /\ fault = [page |-> 0, step |-> "none"]
    /\ error = ""
    /\ log = << >>
    /\ exit_code = -1
    /\ thread = "none"
    /\ page_index = 0
    /\ template_json_dict = << >>
    /\ opened = FALSE
    /\ written = FALSE

vars ==
    << layouts, pc, overlaps, overlapping_bboxes_set, visited, groups, gidx,
       group, removed, max_score, rounds, winners, remove_indexes, skipping,
       call, first_skipping, document, zoom, page_number, processed,
       template_json_pages, table_data, cells, command, entry, args, mpc, fault,
       error, log, exit_code, thread, page_index, template_json_dict, opened,
       written >>

----------------------------------------------------------------------------
(* Pure helpers of process_bboxes.py *)

Region(ls, index) == ls[index + 1]

Indices(ls) == 0 .. (Len(ls) - 1)

convert_bbox(region) ==
    << region.x, region.y, region.x + region.width, region.y + region.height >>

bboxes_overlaps(region1, region2) ==
    LET b1 == convert_bbox(region1)
        b2 == convert_bbox(region2)
    IN  ~ (   b1[3] < b2[1]    \* box1 is left of box2
           \/ b1[1] > b2[3]    \* box1 is right of box2
           \/ b1[4] < b2[2]    \* box1 is above box2
           \/ b1[2] > b2[4] )  \* box1 is below box2

is_overlapping(ls, index1, index2) ==
    bboxes_overlaps(Region(ls, index1), Region(ls, index2))

RECURSIVE find_overlaps_from(_, _, _)
find_overlaps_from(ls, index1, index2) ==
    IF index1 >= Len(ls) THEN << >>
    ELSE IF index2 >= Len(ls) THEN find_overlaps_from(ls, index1 + 1, index1 + 2)
    ELSE (IF is_overlapping(ls, index1, index2) THEN << << index1, index2 >> >> ELSE << >>)
         \o find_overlaps_from(ls, index1, index2 + 1)

\* Variant: the overlap test is skipped, every pair is listed.
find_overlaps_every_pair(ls) ==
    LET F[k \in 0 .. Len(ls) * Len(ls)] ==
            IF k = 0 THEN << >>
            ELSE LET index1 == (k - 1) \div Len(ls)
                     index2 == (k - 1) % Len(ls)
                 IN  IF index1 < index2 THEN Append(F[k - 1], << index1, index2 >>)
                     ELSE F[k - 1]
    IN  F[Len(ls) * Len(ls)]

find_overlaps(ls) == find_overlaps_from(ls, 0, 1)

convert_overlaps_to_set(ovl) ==
    UNION { { ovl[k][1], ovl[k][2] } : k \in 1 .. Len(ovl) }

\* 0-based index of the first group containing `searching`, -1 if none.
get_group_index(searching, all_groups) ==
    LET found == { i \in 1 .. Len(all_groups) : searching \in all_groups[i] }
    IN  IF found = {} THEN -1
        ELSE (CHOOSE i \in found : \A j \in found : i <= j) - 1

\* Variant: only pairs whose first index is box_index are followed.
touching_first_index_only(box_index, ovl) ==
    { ovl[k][2] : k \in { k \in 1 .. Len(ovl) : ovl[k][1] = box_index } }

\* The members _group_overlaps adds for box_index: its direct neighbours.
touching(box_index, ovl) ==
    { ovl[k][2] : k \in { k \in 1 .. Len(ovl) : ovl[k][1] = box_index } }
    \cup { ovl[k][1] : k \in { k \in 1 .. Len(ovl) : ovl[k][2] = box_index } }

\* One iteration of the first loop of _group_overlaps.
group_visit(box_index, gs, ovl) ==
    LET group_index == get_group_index(box_index, gs)
        grp == (IF group_index >= 0 THEN gs[group_index + 1] ELSE {})
                 \cup touching(box_index, ovl)
    IN  IF group_index < 0 THEN Append(gs, grp)
        ELSE [gs EXCEPT ![group_index + 1] = grp]

\* Inner merge loop: group1 absorbs every later, not yet removed group that
\* intersects it at the time that group is reached.
RECURSIVE merge_inner(_, _, _, _)
merge_inner(gs, group1, group_index2, remove_group_indexes) ==
    IF group_index2 > Len(gs)
    THEN [group1 |-> group1, remove_group_indexes |-> remove_group_indexes]
    ELSE IF group_index2 \in remove_group_indexes
    THEN merge_inner(gs, group1, group_index2 + 1, remove_group_indexes)
    ELSE IF group1 \cap gs[group_index2] # {}
    THEN merge_inner(gs, group1 \cup gs[group_index2], group_index2 + 1,
                     remove_group_indexes \cup {group_index2})
    ELSE merge_inner(gs, group1, group_index2 + 1, remove_group_indexes)

\* Outer merge loop: a single pass over the groups.
RECURSIVE merge_outer(_, _, _, _)
merge_outer(gs, group_index1, remove_group_indexes, unique_groups) ==
    IF group_index1 > Len(gs) THEN unique_groups
    ELSE IF group_index1 \in remove_group_indexes
    THEN merge_outer(gs, group_index1 + 1, remove_group_indexes, unique_groups)
    ELSE LET r == merge_inner(gs, gs[group_index1], group_index1 + 1, remove_group_indexes)
         IN  merge_outer(gs, group_index1 + 1, r.remove_group_indexes,
                         Append(unique_groups, r.group1))

merge_groups(gs) == merge_outer(gs, 1, {}, << >>)

\* Variant: the pair is looked up in one orientation only.
is_direct_neightbour_one_way(max_score_index, member_index, ovl) ==
    \E k \in 1 .. Len(ovl) :
        ovl[k][1] = max_score_index /\ ovl[k][2] = member_index

is_direct_neightbour(max_score_index, member_index, ovl) ==
    \E k \in 1 .. Len(ovl) :
        \/ ovl[k][1] = max_score_index /\ ovl[k][2] = member_index
        \/ ovl[k][1] = member_index /\ ovl[k][2] = max_score_index

\* Variant: min() instead of max().
lowest_score(ls, grp) ==
    { m \in grp : \A o \in grp : Region(ls, o).confidence >= Region(ls, m).confidence }

\* The members max(group, key=confidence) can return: those of maximal
\* confidence (max returns the first of them in the set's iteration order).
highest_score(ls, grp) ==
    { m \in grp : \A o \in grp : Region(ls, o).confidence <= Region(ls, m).confidence }

\* Variant: the winner removes every other member of the group.
round_removed_whole_group(grp, ms, ovl) ==
    { member \in grp : member # ms }

\* Members of the group removed in the round won by ms.
round_removed(grp, ms, ovl) ==
    { member \in grp : member # ms /\ is_direct_neightbour(ms, member, ovl) }

\* Variant: the winner is not set aside and stays in the group.
to_further_process_with_winner(grp, ms, ovl) ==
    { member \in grp : ~ is_direct_neightbour(ms, member, ovl) }

\* Members of the group kept for the next round.
to_further_process(grp, ms, ovl) ==
    { member \in grp : member # ms /\ ~ is_direct_neightbour(ms, member, ovl) }

----------------------------------------------------------------------------
(* Page inputs *)

RECURSIVE SeqsUpTo(_, _)
SeqsUpTo(S, n) ==
    IF n = 0 THEN { << >> }
    ELSE LET shorter == SeqsUpTo(S, n - 1)
         IN  shorter \cup { Append(s, e) : s \in { t \in shorter : Len(t) = n - 1 }, e \in S }

\* General family: every page of at most n regions.
SmallPages(n) == SeqsUpTo({ MakeLayout(b, c) : b \in Boxes, c \in Confidences }, n)

\* Row family: the regions of RowPage reported in any order.
RowPages ==
    { [i \in 1 .. Len(RowPage) |-> RowPage[p[i]]] :
        p \in { q \in [1 .. Len(RowPage) -> 1 .. Len(RowPage)] :
                  \A a, b \in 1 .. Len(RowPage) : a # b => q[a] # q[b] } }

Start(ls, c, fs) ==
    /\ layouts = ls
    /\ pc = "start"
    /\ overlaps = << >>
    /\ overlapping_bboxes_set = {}
    /\ visited = {}
    /\ groups = << >>
    /\ gidx = 0
    /\ group = {}
    /\ removed = {}
    /\ max_score = -1
    /\ rounds = 0
    /\ winners = {}
    /\ remove_indexes = {}
    /\ skipping = {}
    /\ call = c
    /\ first_skipping = fs

\* The resolver is used on its own: no TemplateJsonCreator.
NoTemplate ==
    /\ document = << >>
    /\ zoom = 1
    /\ page_number = 0
    /\ processed = {}
    /\ template_json_pages = << >>
    /\ table_data = [row_count |-> 0, column_count |-> 0, children |-> << >>]
    /\ cells = << >>
    /\ NoMain

InitSmall == (\E ls \in SmallPages(MaxRegions) : Start(ls, "first", {})) /\ NoTemplate

InitRow == (\E ls \in RowPages : Start(ls, "first", {})) /\ NoTemplate

\* Bounding boxes with every combination of proper overlap, shared edge,
\* shared corner, containment and zero width or height.
GeomBoxes ==
    { [x |-> bx, y |-> by, width |-> bw, height |-> bh] :
        bx \in 0 .. 2, by \in 0 .. 1, bw \in 0 .. 2, bh \in 0 .. 1 }

\* Geometry family: every page of at most two regions over GeomBoxes.
InitGeom ==
    /\ \E ls \in SeqsUpTo({ MakeLayout(b, c) : b \in GeomBoxes, c \in 1 .. 2 }, 2) :
          Start(ls, "first", {})
    /\ NoTemplate

Init == InitSmall \/ InitRow

InitFair ==
    \/ (\E ls \in SmallPages(MaxFairRegions) : Start(ls, "first", {})) /\ NoTemplate
    \/ InitRow

----------------------------------------------------------------------------
(* get_list_of_skipping_ids, step by step *)

\* Lines 60-61: the overlap list and the set of overlapping indices.
FindOverlaps ==
    /\ pc = "start"
    /\ overlaps' = find_overlaps(layouts)
    /\ overlapping_bboxes_set' = convert_overlaps_to_set(find_overlaps(layouts))
    /\ pc' = "group"
    /\ UNCHANGED << layouts, visited, groups, gidx, group, removed, max_score,
                    rounds, winners, remove_indexes, skipping, call, first_skipping >>
    /\ UNCHANGED tvars
    /\ UNCHANGED mvars

\* _group_overlaps, first loop: one box_index, in the set's iteration order.
GroupVisit ==
    /\ pc = "group"
    /\ \E box_index \in overlapping_bboxes_set \ visited :
          /\ groups' = group_visit(box_index, groups, overlaps)
          /\ visited' = visited \cup {box_index}
    /\ UNCHANGED << layouts, pc, overlaps, overlapping_bboxes_set, gidx, group,
                    removed, max_score, rounds, winners, remove_indexes, skipping,
                    call, first_skipping >>
    /\ UNCHANGED tvars
    /\ UNCHANGED mvars

\* _group_overlaps, second loop and return.
MergeGroups ==
    /\ pc = "group"
    /\ visited = overlapping_bboxes_set
    /\ groups' = merge_groups(groups)
    /\ pc' = "remove"
    /\ UNCHANGED << layouts, overlaps, overlapping_bboxes_set, visited, gidx, group,
                    removed, max_score, rounds, winners, remove_indexes, skipping,
                    call, first_skipping >>
    /\ UNCHANGED tvars
    /\ UNCHANGED mvars

\* _get_removing_indexes: call _process_group on the next group.
EnterGroup ==
    /\ pc = "remove"
    /\ gidx < Len(groups)
    /\ group' = groups[gidx + 1]
    /\ removed' = {}
    /\ rounds' = 0
    /\ max_score' = -1
    /\ pc' = "round"
    /\ UNCHANGED << layouts, overlaps, overlapping_bboxes_set, visited, groups, gidx,
                    winners, remove_indexes, skipping, call, first_skipping >>
    /\ UNCHANGED tvars
    /\ UNCHANGED mvars

\* _process_group: one round of the while loop.
ProcessRound ==
    /\ pc = "round"
    /\ group # {}
    /\ rounds <= Len(layouts)   \* cap of the round counter; never binding
    /\ \E ms \in highest_score(layouts, group) :
          /\ max_score' = ms
          /\ removed' = removed \cup round_removed(group, ms, overlaps)
          /\ group' = to_further_process(group, ms, overlaps)
          /\ winners' = winners \cup {ms}
    /\ rounds' = rounds + 1
    /\ UNCHANGED << layouts, pc, overlaps, overlapping_bboxes_set, visited, groups,
                    gidx, remove_indexes, skipping, call, first_skipping >>
    /\ UNCHANGED tvars
    /\ UNCHANGED mvars

\* _process_group returns; _get_removing_indexes adds its result.
LeaveGroup ==
    /\ pc = "round"
    /\ group = {}
    /\ remove_indexes' = remove_indexes \cup removed
    /\ gidx' = gidx + 1
    /\ pc' = "remove"
    /\ UNCHANGED << layouts, overlaps, overlapping_bboxes_set, visited, groups, group,
                    removed, max_score, rounds, winners, skipping, call, first_skipping >>
    /\ UNCHANGED tvars
    /\ UNCHANGED mvars

\* Lines 64-67: the ids of the removed indices are returned.
Finish ==
    /\ pc = "remove"
    /\ gidx >= Len(groups)
    /\ skipping' = remove_indexes
    /\ pc' = "done"
    /\ UNCHANGED << layouts, overlaps, overlapping_bboxes_set, visited, groups, gidx,
                    group, removed, max_score, rounds, winners, remove_indexes,
                    call, first_skipping >>
    /\ UNCHANGED tvars
    /\ UNCHANGED mvars

\* The regions of the page that are not skipped, in page order.
retained_layouts(ls, skip) ==
    LET F[k \in 0 .. Len(ls)] ==
            IF k = 0 THEN << >>
            ELSE IF (k - 1) \in skip THEN F[k - 1] ELSE Append(F[k - 1], ls[k])
    IN  F[Len(ls)]

\* A second call on the same page.
CallAgain ==
    /\ pc = "done"
    /\ call = "first"
    /\ layouts' = layouts
    /\ pc' = "start"
    /\ overlaps' = << >>
    /\ overlapping_bboxes_set' = {}
    /\ visited' = {}
    /\ groups' = << >>
    /\ gidx' = 0
    /\ group' = {}
    /\ removed' = {}
    /\ max_score' = -1
    /\ rounds' = 0
    /\ winners' = {}
    /\ remove_indexes' = {}
    /\ skipping' = {}
    /\ call' = "again"
    /\ first_skipping' = skipping
    /\ UNCHANGED tvars
    /\ UNCHANGED mvars

\* A second call on the page with the skipped regions taken out.
CallFiltered ==
    /\ pc = "done"
    /\ call = "first"
    /\ layouts' = retained_layouts(layouts, skipping)
    /\ pc' = "start"
    /\ overlaps' = << >>
    /\ overlapping_bboxes_set' = {}
    /\ visited' = {}
    /\ groups' = << >>
    /\ gidx' = 0
    /\ group' = {}
    /\ removed' = {}
    /\ max_score' = -1
    /\ rounds' = 0
    /\ winners' = {}
    /\ remove_indexes' = {}
    /\ skipping' = {}
    /\ call' = "filtered"
    /\ first_skipping' = skipping
    /\ UNCHANGED tvars
    /\ UNCHANGED mvars

Next ==
    \/ FindOverlaps
    \/ GroupVisit
    \/ MergeGroups
    \/ EnterGroup
    \/ ProcessRound
    \/ LeaveGroup
    \/ Finish
    \/ CallAgain
    \/ CallFiltered

Spec == Init /\ [][Next]_vars

\* One call of get_list_of_skipping_ids.
NextCall ==
    \/ FindOverlaps
    \/ GroupVisit
    \/ MergeGroups
    \/ EnterGroup
    \/ ProcessRound
    \/ LeaveGroup
    \/ Finish

\* get_list_of_skipping_ids is sequential code without blocking calls: once
\* called it keeps executing its next step.
FairSpec == InitFair /\ [][NextCall]_vars /\ WF_vars(NextCall)

\* The resolver on the pages of the geometry family.
SpecGeom == InitGeom /\ [][Next]_vars

----------------------------------------------------------------------------
(* The overlap graph of the page, as the data model defines it *)

Nodes == Indices(layouts)

Conf(i) == Region(layouts, i).confidence

\* i and j are joined by a direct overlap edge.
Edge(i, j) == i # j /\ bboxes_overlaps(Region(layouts, i), Region(layouts, j))

Neighbours(i) == { j \in Nodes : Edge(i, j) }

\* Indices reachable from S along overlap edges.
RECURSIVE Closure(_)
Closure(S) ==
    LET T == S \cup UNION { Neighbours(i) : i \in S }
    IN  IF T = S THEN S ELSE Closure(T)

\* Connected components of the graph restricted to nodes of degree >= 1.
Components == { Closure({i}) : i \in { j \in Nodes : Neighbours(j) # {} } }

GroupSet == { groups[k] : k \in 1 .. Len(groups) }

DistinctConfidences == \A i, j \in Nodes : i # j => Conf(i) # Conf(j)

\* Reference reduction of one component: keep the maximum-confidence
\* remaining member, remove its direct neighbours, repeat.
RECURSIVE RefReduce(_)
RefReduce(g) ==
    IF g = {} THEN {}
    ELSE LET w == CHOOSE m \in g : \A o \in g : Conf(o) <= Conf(m)
         IN  (Neighbours(w) \cap g) \cup RefReduce(g \ ({w} \cup Neighbours(w)))

RefSkip == UNION { RefReduce(c) : c \in Components }

----------------------------------------------------------------------------
(* Claims *)

\* C1: after get_list_of_skipping_ids has returned, no two retained regions
\* (indices outside the skip-set) overlap each other.
C1_NoRetainedOverlap ==
    pc = "done" =>
        \A i, j \in Nodes \ skipping : ~ Edge(i, j)

\* C1 witness: a call returned with a group that lost a member and still has
\* two retained members.
C1_Witness ==
    /\ pc = "done"
    /\ \E g \in GroupSet : g \cap skipping # {} /\ Cardinality(g \ skipping) >= 2

\* C2: a region that overlaps no other region of the page is never in the
\* skip-set.
C2_IsolatedRetained ==
    pc = "done" =>
        \A i \in Nodes : Neighbours(i) = {} => i \notin skipping

\* C2 witness: a call returned a non-empty skip-set on a page that also has
\* an isolated region.
C2_Witness ==
    /\ pc = "done"
    /\ skipping # {}
    /\ \E i \in Nodes : Neighbours(i) = {}

\* C3: _group_overlaps returns exactly the connected components of the
\* overlap graph restricted to nodes of degree >= 1: pairwise disjoint groups
\* whose members are connected exactly when they share a group.
C3_GroupsAreComponents ==
    pc \in {"remove", "round", "done"} =>
        /\ GroupSet = Components
        /\ \A k, l \in 1 .. Len(groups) : k # l => groups[k] \cap groups[l] = {}

\* C4: a region selected as the winner of any round of any group is not in
\* the returned skip-set.
C4_WinnersRetained ==
    pc = "done" => winners \cap skipping = {}

\* C5: with pairwise distinct confidences the skip-set equals the one of the
\* reference algorithm (components, then repeated keep-the-maximum and
\* remove-its-neighbours).
C5_EqualsReference ==
    (pc = "done" /\ DistinctConfidences) => skipping = RefSkip

\* C6: in a group whose unique maximum-confidence member directly overlaps
\* every other member, exactly that member is retained and every other
\* member is skipped.
C6_DominantWinner ==
    pc = "done" =>
        \A c \in Components : \A m \in c :
            (/\ \A o \in c \ {m} : Conf(o) < Conf(m)
             /\ c \ {m} \subseteq Neighbours(m))
            => skipping \cap c = c \ {m}

\* C6 witness: a call returned on a chain A-B-C whose middle B has the unique
\* highest confidence.
C6_Witness ==
    /\ pc = "done"
    /\ \E c \in Components : \E m \in c :
          /\ Cardinality(c) = 3
          /\ \A o \in c \ {m} : Conf(o) < Conf(m)
          /\ c \ {m} \subseteq Neighbours(m)
          /\ \E a, b \in c \ {m} : a # b /\ ~ Edge(a, b)

\* A round of _process_group: every other member of the current group is
\* removed exactly when it is a direct neighbour of the round's winner and
\* stays in the group for the next round exactly when it is not.
C7_Round ==
    (pc = "round" /\ rounds' = rounds + 1) =>
        /\ max_score' \in group
        /\ \A m \in group \ {max_score'} :
              /\ (m \in removed') = Edge(max_score', m)
              /\ (m \in group') = ~ Edge(max_score', m)
        /\ removed' \ removed \subseteq Neighbours(max_score')

\* A chain A-B-C (A-B and B-C overlap, A-C do not) with B the least and C
\* the most confident ends with exactly B skipped.
C7_Chain ==
    pc = "done" =>
        \A a, b, c \in Nodes :
            (/\ Conf(b) < Conf(a) /\ Conf(a) < Conf(c)
             /\ Edge(a, b) /\ Edge(b, c) /\ ~ Edge(a, c)
             /\ Closure({a}) = {a, b, c})
            => /\ skipping \cap {a, b, c} = {b}
               /\ {a, c} \subseteq winners

\* C7: a member is skipped only as a direct neighbour of the current round's
\* winner, members connected to it only transitively go on to the next
\* round, and the chain A=0.9, B=0.5, C=0.95 keeps {A, C} and skips {B}.
C7_DirectNeighboursOnly == [][C7_Round]_vars /\ []C7_Chain

\* C7 witness: a call returned on such a chain.
C7_Witness ==
    /\ pc = "done"
    /\ \E a, b, c \in Nodes :
          /\ Conf(b) < Conf(a) /\ Conf(a) < Conf(c)
          /\ Edge(a, b) /\ Edge(b, c) /\ ~ Edge(a, c)
          /\ Closure({a}) = {a, b, c}
          /\ skipping = {b}

\* C8: a second call on the page without the regions the first call skipped
\* returns an empty skip-set.
C8_Idempotent ==
    (call = "filtered" /\ pc = "done") => skipping = {}

\* C8 witness: the second call returned after a first call that skipped
\* something and kept at least two regions.
C8_Witness ==
    /\ call = "filtered"
    /\ pc = "done"
    /\ first_skipping # {}
    /\ Len(layouts) >= 2

\* Every round shrinks the current group, so the rounds done plus the
\* members left never exceed the size of the group _process_group was
\* called with.
C9_Variant ==
    pc = "round" =>
        /\ rounds + Cardinality(group) <= Cardinality(groups[gidx + 1])
        /\ (rounds > 0 => max_score \notin group)

\* C9: the reduction of a group ends after at most |group| rounds and every
\* call of get_list_of_skipping_ids returns, on the empty page too.
C9_Terminates == []C9_Variant /\ ((pc = "start") ~> (pc = "done"))

\* C9 witness: a call returned whose last group took two rounds.
C9_Witness ==
    /\ pc = "done"
    /\ rounds >= 2

\* C10: two calls on the same page return the same skip-set, whatever the
\* iteration order of the sets.
C10_Deterministic ==
    (call = "again" /\ pc = "done") => skipping = first_skipping

----------------------------------------------------------------------------
(* TemplateJsonCreator (src/src/template_json.py)                          *)
(*                                                                         *)
(* Normalised Textract coordinates are counted in quarters of the page     *)
(* (x = 1 is a quarter of the width).  A page view has the device size     *)
(* page size * zoom.  A rectangle in page space is kept in units of        *)
(* 1 / zoom point, so that RectToPage stays in the integers: the value v   *)
(* stands for the page coordinate v / zoom.                                *)

\* Largest grid of a table: rows and columns.
MaxRows == 2

MaxCols == 2

\* Default of the --zoom argument.
DefaultZoom == 2

\* Size of a PDF page in points.
PageSize == [width |-> 8, height |-> 12]

\* str() of a number, and float() of such a string.
Str(n) == << "str", n >>

Float(str) == str[2]

\* int() of the quotient num / den: truncation towards zero.
py_int(num, den) ==
    IF num >= 0 THEN num \div den ELSE -((-num) \div den)

\* PdfPageView.GetDeviceWidth and GetDeviceHeight.
GetDeviceWidth(z) == PageSize.width * z

GetDeviceHeight(z) == PageSize.height * z

\* PdfPageView.RectToPage: device pixels (origin top left, y down) to page
\* space (origin bottom left, y up), in units of 1 / zoom point.
RectToPage(z, rect) ==
    [left |-> rect.left, bottom |-> GetDeviceHeight(z) - rect.bottom,
     right |-> rect.right, top |-> GetDeviceHeight(z) - rect.top]

\* The device rectangle of a bounding box, widened by `offset` pixels.
dev_rect(z, bbox, offset) ==
    [left   |-> py_int(bbox.x * GetDeviceWidth(z) - 4 * offset, 4),
     top    |-> py_int(bbox.y * GetDeviceHeight(z) - 4 * offset, 4),
     right  |-> py_int((bbox.x + bbox.width) * GetDeviceWidth(z) + 4 * offset, 4),
     bottom |-> py_int((bbox.y + bbox.height) * GetDeviceHeight(z) + 4 * offset, 4)]

\* The "bbox" entry of a descriptor: left, bottom, right, top as strings.
bbox_strings(bbox) == << Str(bbox.left), Str(bbox.bottom), Str(bbox.right), Str(bbox.top) >>

\* Variant: the Textract indices are taken as 0-based and shifted by one.
detected_cell_shifted(z, cell) ==
    [bbox |-> bbox_strings(RectToPage(z, dev_rect(z, cell, 0))),
     cell_column |-> Str(cell.col_index + 1),
     cell_column_span |-> Str(cell.col_span),
     cell_row |-> Str(cell.row_index + 1),
     cell_row_span |-> Str(cell.row_span),
     cell_header |-> cell.is_column_header,
     cell_scope |-> IF cell.is_column_header THEN "column" ELSE "",
     comment |-> << "Cell", cell.row_index + 1, cell.col_index + 1 >>,
     type |-> "pde_cell"]

\* _create_table_cells, first loop: the descriptor of a detected TableCell
\* (cell_scope "" stands for the absent key).
detected_cell(z, cell) ==
    [bbox |-> bbox_strings(RectToPage(z, dev_rect(z, cell, 0))),
     cell_column |-> Str(cell.col_index),
     cell_column_span |-> Str(cell.col_span),
     cell_row |-> Str(cell.row_index),
     cell_row_span |-> Str(cell.row_span),
     cell_header |-> cell.is_column_header,
     cell_scope |-> IF cell.is_column_header THEN "column" ELSE "",
     comment |-> << "Cell", cell.row_index, cell.col_index >>,
     type |-> "pde_cell"]

\* _create_table_cells, second loop: the descriptor of an added empty cell.
empty_cell(row_number, column_number) ==
    [bbox |-> << Str(0), Str(0), Str(0), Str(0) >>,
     cell_column |-> Str(column_number),
     cell_column_span |-> Str(0),
     cell_row |-> Str(row_number),
     cell_row_span |-> Str(0),
     cell_header |-> "false",
     cell_scope |-> "",
     comment |-> << "Added by processing", row_number, column_number >>,
     type |-> "pde_cell"]

\* Variant: the scan compares with the 0-based loop indices.
is_detected_zero_based(td, row_number, column_number) ==
    \E k \in 1 .. Len(td.children) :
        /\ td.children[k].row_index = row_number - 1
        /\ td.children[k].col_index = column_number - 1

\* The any(...) of the second loop: some child sits at this grid position.
is_detected(td, row_number, column_number) ==
    \E k \in 1 .. Len(td.children) :
        /\ td.children[k].row_index = row_number
        /\ td.children[k].col_index = column_number

\* The empty cells, row by row and column by column.
RECURSIVE empty_cells_from(_, _, _)
empty_cells_from(td, row_index, col_index) ==
    IF row_index >= td.row_count THEN << >>
    ELSE IF col_index >= td.column_count THEN empty_cells_from(td, row_index + 1, 0)
    ELSE (IF ~ is_detected(td, row_index + 1, col_index + 1)
          THEN << empty_cell(row_index + 1, col_index + 1) >> ELSE << >>)
         \o empty_cells_from(td, row_index, col_index + 1)

create_table_cells(z, td) ==
    [k \in 1 .. Len(td.children) |-> detected_cell(z, td.children[k])]
    \o empty_cells_from(td, 0, 0)

\* A Textract TableCell at 1-based grid position (r, c): its box is the grid
\* square, in quarters of the page.
TableCell(r, c, rs, cs, header) ==
    [row_index |-> r, col_index |-> c, row_span |-> rs, col_span |-> cs,
     is_column_header |-> header, confidence |-> 1,
     x |-> c - 1, y |-> r - 1, width |-> cs, height |-> rs]

\* The cells of a set of grid positions in row-major order; `merged` is the
\* position of a cell with the spans rs and cs (or no position at all).
RECURSIVE cells_of(_, _, _, _, _, _)
cells_of(positions, rows, cols, merged, spans, header) ==
    IF positions = {} THEN << >>
    ELSE LET p == CHOOSE q \in positions :
                      \A o \in positions : q[1] < o[1] \/ (q[1] = o[1] /\ q[2] <= o[2])
             sp == IF p = merged THEN spans ELSE << 1, 1 >>
         IN  << TableCell(p[1], p[2], sp[1], sp[2], header /\ p[1] = 1) >>
             \o cells_of(positions \ {p}, rows, cols, merged, spans, header)

\* Table family: every grid of at most MaxRows x MaxCols, any set of its
\* positions detected, at most one detected cell spanning more than one
\* position, the first row being column headers or not.
Tables ==
    { [row_count |-> rows, column_count |-> cols,
       children |-> cells_of(t.positions, rows, cols, t.merged, t.spans, t.header)] :
        rows \in 1 .. MaxRows, cols \in 1 .. MaxCols,
        t \in [positions : SUBSET ((1 .. MaxRows) \X (1 .. MaxCols)),
               merged : ((1 .. MaxRows) \X (1 .. MaxCols)) \cup { << 0, 0 >> },
               spans : { << 1, 2 >>, << 2, 1 >>, << 2, 2 >> },
               header : BOOLEAN] }

WellFormedTable(td) ==
    \A k \in 1 .. Len(td.children) :
        LET cell == td.children[k]
        IN  /\ cell.row_index + cell.row_span - 1 <= td.row_count
            /\ cell.col_index + cell.col_span - 1 <= td.column_count

InitTable ==
    /\ Start(<< >>, "table", {})
    /\ document = << >>
    /\ zoom = DefaultZoom
    /\ page_number = 0
    /\ processed = {}
    /\ template_json_pages = << >>
    /\ table_data \in { td \in Tables : WellFormedTable(td) }
    /\ cells = << >>
    /\ NoMain

\* _create_table_cells on table_data.
CreateTableCells ==
    /\ pc = "start"
    /\ call = "table"
    /\ cells' = create_table_cells(zoom, table_data)
    /\ pc' = "done"
    /\ UNCHANGED << layouts, overlaps, overlapping_bboxes_set, visited, groups, gidx,
                    group, removed, max_score, rounds, winners, remove_indexes,
                    skipping, call, first_skipping, document, zoom, page_number,
                    processed, template_json_pages, table_data >>
    /\ UNCHANGED mvars

SpecTable == InitTable /\ [][CreateTableCells]_vars

----------------------------------------------------------------------------
(* _create_json_for_elements and process_page                              *)

\* Largest number of regions on a typed page, largest zoom, largest number
\* of pages of a document.
MaxTypedRegions == 2

MaxZoom == 2

MaxPages == 2

\* The padding of a region's rectangle, in device pixels.
offset == 2

\* Variant: only the first child is looked at.
find_table_first_child_only(layout) ==
    IF Len(layout.children) > 0 /\ layout.children[1].kind = "Table"
    THEN << layout.children[1] >> ELSE << >>

\* _find_table_in_children: the first child that is a Table, as a sequence
\* of one element, or the empty sequence for None.
find_table_in_children(layout) ==
    LET found == { k \in 1 .. Len(layout.children) : layout.children[k].kind = "Table" }
    IN  IF found = {} THEN << >>
        ELSE << layout.children[CHOOSE k \in found : \A o \in found : k <= o] >>

\* _is_footer_or_header: bbox.top < GetDeviceHeight() / 2, with bbox.top the
\* page coordinate top / zoom.
is_footer_or_header(z, bbox) ==
    IF 2 * bbox.top < z * GetDeviceHeight(z) THEN "footer" ELSE "header"

\* _create_list_items: one item for every child that is a Layout.
RECURSIVE create_list_items(_, _)
create_list_items(z, children) ==
    IF children = << >> THEN << >>
    ELSE (IF Head(children).kind = "Layout"
          THEN << [bbox |-> bbox_strings(RectToPage(z, dev_rect(z, Head(children), 0))),
                   comment |-> "List Item", type |-> "pde_text"] >>
          ELSE << >>)
         \o create_list_items(z, Tail(children))

\* The label of the comment: the layout type without its LAYOUT_ prefix.
label(layout) == << "label", layout.layout_type, layout.confidence >>

\* The keys every element gets before the match statement; "" and << >>
\* stand for an absent key.
element_base(z, layout) ==
    [bbox |-> bbox_strings(RectToPage(z, dev_rect(z, layout, offset))),
     comment |-> label(layout),
     flag |-> "", text_flag |-> "", type |-> "", heading |-> "", tag |-> "",
     elements |-> << >>, row_num |-> 0, col_num |-> 0]

\* Variant: a region of an unrecognized layout type is rejected.
is_emitted_known_types_only(layout) ==
    /\ layout.layout_type \in
          { "LAYOUT_FIGURE", "LAYOUT_FOOTER", "LAYOUT_HEADER", "LAYOUT_LIST",
            "LAYOUT_PAGE_NUMBER", "LAYOUT_SECTION_HEADER", "LAYOUT_TABLE",
            "LAYOUT_TEXT", "LAYOUT_TITLE" }
    /\ layout.layout_type = "LAYOUT_TABLE" => find_table_in_children(layout) # << >>

\* The match statement reaches elements.append(element): every case but the
\* table without table data.
is_emitted(layout) ==
    layout.layout_type = "LAYOUT_TABLE" => find_table_in_children(layout) # << >>

\* The match statement on layout.layout_type.
element_of(z, layout) ==
    LET e == element_base(z, layout)
        t == layout.layout_type
    IN  CASE t = "LAYOUT_FIGURE" ->
                [e EXCEPT !.flag = "no_join|no_split", !.type = "pde_image"]
          [] t = "LAYOUT_FOOTER" ->
                [e EXCEPT !.flag = "footer|artifact|no_join|no_split",
                          !.text_flag = "no_new_line", !.type = "pde_text"]
          [] t = "LAYOUT_HEADER" ->
                [e EXCEPT !.flag = "header|artifact|no_join|no_split",
                          !.text_flag = "no_new_line", !.type = "pde_text"]
          [] t = "LAYOUT_LIST" ->
                [e EXCEPT !.elements = create_list_items(z, layout.children),
                          !.flag = "no_join|no_split", !.type = "pde_list"]
          [] t = "LAYOUT_PAGE_NUMBER" ->
                [e EXCEPT !.flag =
                              IF is_footer_or_header(
                                     z, RectToPage(z, dev_rect(z, layout, offset))) = "footer"
                              THEN "footer|artifact|no_join|no_split"
                              ELSE "header|artifact|no_join|no_split",
                          !.text_flag = "no_new_line", !.type = "pde_text"]
          [] t = "LAYOUT_SECTION_HEADER" ->
                [e EXCEPT !.heading = "h1", !.flag = "no_join|no_split",
                          !.text_flag = "no_new_line", !.type = "pde_text"]
          [] t = "LAYOUT_TABLE" /\ find_table_in_children(layout) # << >> ->
                LET td == find_table_in_children(layout)[1].table
                IN  [e EXCEPT !.elements = create_table_cells(z, td),
                              !.row_num = td.row_count, !.col_num = td.column_count,
                              !.flag = "no_join|no_split", !.type = "pde_table"]
          [] t = "LAYOUT_TEXT" ->
                [e EXCEPT !.flag = "no_join|no_split",
                          !.text_flag = "no_new_line", !.type = "pde_text"]
          [] t = "LAYOUT_TITLE" ->
                [e EXCEPT !.tag = "Title", !.flag = "no_join|no_split",
                          !.text_flag = "no_new_line", !.type = "pde_text"]
          [] OTHER ->
                [e EXCEPT !.flag = "no_join|no_split",
                          !.text_flag = "no_new_line", !.type = "pde_text"]

\* The loop over result.layouts: the elements in page order, before sorting.
built_elements(z, ls, skip) ==
    LET F[k \in 0 .. Len(ls)] ==
            IF k = 0 THEN << >>
            ELSE IF (k - 1) \in skip \/ ~ is_emitted(ls[k]) THEN F[k - 1]
            ELSE Append(F[k - 1], element_of(z, ls[k]))
    IN  F[Len(ls)]

\* The sort key (float(bbox[3]), 1000.0 - float(bbox[0])), both parts times
\* the zoom.
sort_key(z, element) ==
    << Float(element.bbox[4]), 1000 * z - Float(element.bbox[1]) >>

key_less(a, b) == a[1] < b[1] \/ (a[1] = b[1] /\ a[2] < b[2])

\* Variant: sorted without reverse=True.
sorted_elements_ascending(z, elements) ==
    LET insert(sorted, e) ==
            LET before == { k \in 1 .. Len(sorted) :
                              ~ key_less(sort_key(z, e), sort_key(z, sorted[k])) }
                n == Cardinality(before)
            IN  SubSeq(sorted, 1, n) \o << e >> \o SubSeq(sorted, n + 1, Len(sorted))
        F[k \in 0 .. Len(elements)] ==
            IF k = 0 THEN << >> ELSE insert(F[k - 1], elements[k])
    IN  F[Len(elements)]

\* sorted(elements, key=..., reverse=True): descending keys, elements of
\* equal key in their original order.
sorted_elements(z, elements) ==
    LET insert(sorted, e) ==
            LET before == { k \in 1 .. Len(sorted) :
                              ~ key_less(sort_key(z, sorted[k]), sort_key(z, e)) }
                n == Cardinality(before)
            IN  SubSeq(sorted, 1, n) \o << e >> \o SubSeq(sorted, n + 1, Len(sorted))
        F[k \in 0 .. Len(elements)] ==
            IF k = 0 THEN << >> ELSE insert(F[k - 1], elements[k])
    IN  F[Len(elements)]

create_json_for_elements(z, ls, skip) == sorted_elements(z, built_elements(z, ls, skip))

\* Variant: the descriptor is put in front of the earlier ones.
process_page_prepend(pages, elements, number) ==
    << [comment |-> << "Page", number >>, elements |-> elements,
        query |-> number, statement |-> "$if"] >> \o pages

\* Variant: a page without elements is left out of the template.
process_page_nonempty_only(pages, elements, number) ==
    IF elements = << >> THEN pages
    ELSE Append(pages, [comment |-> << "Page", number >>, elements |-> elements,
                        query |-> number, statement |-> "$if"])

\* process_page: the page descriptor appended to template_json_pages.
process_page(pages, elements, number) ==
    Append(pages, [comment |-> << "Page", number >>, elements |-> elements,
                   query |-> number, statement |-> "$if"])

\* Bounding boxes of typed regions, in quarters of the page, with the
\* confidence of the region drawn there: a box at the bottom, one in the
\* upper half, one at the top right, and two overlapping ones at the top.
TypedBoxes ==
    << MakeLayout([x |-> 0, y |-> 3, width |-> 2, height |-> 1], 1),
       MakeLayout([x |-> 0, y |-> 1, width |-> 1, height |-> 1], 2),
       MakeLayout([x |-> 3, y |-> 0, width |-> 1, height |-> 1], 3),
       MakeLayout([x |-> 1, y |-> 0, width |-> 2, height |-> 1], 4),
       MakeLayout([x |-> 0, y |-> 0, width |-> 2, height |-> 1], 5) >>

Line == [kind |-> "Line"]

\* A Table child: one row of two columns with the first cell detected.
TableChild ==
    [kind |-> "Table",
     table |-> [row_count |-> 1, column_count |-> 2,
                children |-> << TableCell(1, 1, 1, 1, TRUE) >>]]

ListItem ==
    [kind |-> "Layout", x |-> 0, y |-> 0, width |-> 1, height |-> 1, confidence |-> 1]

\* Layout type and children of a region; LAYOUT_KEY_VALUE is a type the
\* match statement has no case for.
RegionKinds ==
    { [layout_type |-> t, children |-> << >>] :
        t \in { "LAYOUT_FIGURE", "LAYOUT_FOOTER", "LAYOUT_HEADER", "LAYOUT_PAGE_NUMBER",
                "LAYOUT_SECTION_HEADER", "LAYOUT_TEXT", "LAYOUT_TITLE",
                "LAYOUT_KEY_VALUE" } }
    \cup { [layout_type |-> "LAYOUT_LIST", children |-> << Line, ListItem >>] }
    \cup { [layout_type |-> "LAYOUT_TABLE", children |-> ch] :
             ch \in { << >>, << Line >>, << TableChild >>, << Line, TableChild >> } }

TypedLayout(b, kind) ==
    [x |-> b.x, y |-> b.y, width |-> b.width, height |-> b.height,
     confidence |-> b.confidence,
     layout_type |-> kind.layout_type, children |-> kind.children]

\* The pages of at most n regions: a choice of boxes, listed in the order of
\* TypedBoxes, each with a kind.
RECURSIVE typed_pages_from(_, _)
typed_pages_from(k, n) ==
    IF k > Len(TypedBoxes) THEN { << >> }
    ELSE LET rest == typed_pages_from(k + 1, n)
         IN  rest \cup
             { << TypedLayout(TypedBoxes[k], kind) >> \o page :
                 kind \in RegionKinds, page \in { q \in rest : Len(q) < n } }

TypedPages == typed_pages_from(1, MaxTypedRegions)

\* Pages of the documents of several pages: the empty page, a page of one
\* text and a page of two overlapping texts.
PlainPages ==
    LET text == [layout_type |-> "LAYOUT_TEXT", children |-> << >>]
    IN  { << >>,
          << TypedLayout(TypedBoxes[1], text) >>,
          << TypedLayout(TypedBoxes[4], text), TypedLayout(TypedBoxes[5], text) >> }

Documents == SeqsUpTo(PlainPages, MaxPages) \ { << >> }

\* The creator after construction, before the first page.
Idle ==
    /\ layouts = << >>
    /\ pc = "idle"
    /\ overlaps = << >>
    /\ overlapping_bboxes_set = {}
    /\ visited = {}
    /\ groups = << >>
    /\ gidx = 0
    /\ group = {}
    /\ removed = {}
    /\ max_score = -1
    /\ rounds = 0
    /\ winners = {}
    /\ remove_indexes = {}
    /\ skipping = {}
    /\ call = "page"
    /\ first_skipping = {}
    /\ page_number = 0
    /\ processed = {}
    /\ template_json_pages = << >>
    /\ table_data = [row_count |-> 0, column_count |-> 0, children |-> << >>]
    /\ cells = << >>

InitPage ==
    /\ Idle
    /\ NoMain
    /\ \/ document \in { << page >> : page \in TypedPages } /\ zoom \in 1 .. MaxZoom
       \/ document \in Documents /\ zoom = DefaultZoom

InitWorkers ==
    /\ Idle
    /\ NoMain
    /\ document \in Documents
    /\ zoom = DefaultZoom

\* _process_pdf_file_page up to the call of get_list_of_skipping_ids in
\* _create_json_for_elements, for page p of the document.
EnterPage(p) ==
    /\ pc = "idle"
    /\ p \in (1 .. Len(document)) \ processed
    /\ page_number' = p
    /\ layouts' = document[p]
    /\ pc' = "start"
    /\ overlaps' = << >>
    /\ overlapping_bboxes_set' = {}
    /\ visited' = {}
    /\ groups' = << >>
    /\ gidx' = 0
    /\ group' = {}
    /\ removed' = {}
    /\ max_score' = -1
    /\ rounds' = 0
    /\ winners' = {}
    /\ remove_indexes' = {}
    /\ skipping' = {}
    /\ UNCHANGED << call, first_skipping, document, zoom, processed,
                    template_json_pages, table_data, cells >>
    /\ UNCHANGED << command, entry, args, fault, error, log, exit_code, thread,
                    page_index, template_json_dict, opened, written >>
    /\ mpc' = IF mpc = "process_page" THEN "in_process_page" ELSE mpc

\* process_file: the pages of the document one after the other.
StartPage == EnterPage(Cardinality(processed) + 1)

\* process_page called for the pages in any order.
StartAnyPage == \E p \in 1 .. Len(document) : EnterPage(p)

\* process_page from the return of get_list_of_skipping_ids on: the element
\* loop, the sort and the append.
FinishPage ==
    /\ pc = "done"
    /\ call = "page"
    /\ template_json_pages' =
          process_page(template_json_pages,
                       create_json_for_elements(zoom, layouts, skipping), page_number)
    /\ processed' = processed \cup {page_number}
    /\ pc' = "idle"
    /\ UNCHANGED << layouts, overlaps, overlapping_bboxes_set, visited, groups, gidx,
                    group, removed, max_score, rounds, winners, remove_indexes,
                    skipping, call, first_skipping, document, zoom, page_number,
                    table_data, cells >>
    /\ UNCHANGED << command, entry, args, fault, error, log, exit_code, thread,
                    page_index, template_json_dict, opened, written >>
    /\ mpc' = IF mpc = "in_process_page" THEN "release_view" ELSE mpc

NextPage ==
    \/ StartPage
    \/ NextCall
    \/ FinishPage

SpecPage == InitPage /\ [][NextPage]_vars

NextWorkers ==
    \/ StartAnyPage
    \/ NextCall
    \/ FinishPage

SpecWorkers == InitWorkers /\ [][NextWorkers]_vars

----------------------------------------------------------------------------
(* main, autotagging_pdf / create_template_json and process_file           *)

\* The variables of the overlap resolver.
rvars ==
    << layouts, pc, overlaps, overlapping_bboxes_set, visited, groups, gidx, group,
       removed, max_score, rounds, winners, remove_indexes, skipping, call,
       first_skipping >>

\* A path is the sequence of its characters.
Paths ==
    [pdf   |-> << "a", ".", "p", "d", "f" >>,
     PDF   |-> << "a", ".", "P", "D", "F" >>,
     json  |-> << "a", ".", "j", "s", "o", "n" >>,
     Json  |-> << "a", ".", "J", "s", "o", "n" >>,
     txt   |-> << "a", ".", "t", "x", "t" >>,
     nodot |-> << "p", "d", "f" >>]

\* str.lower()
lower(path) ==
    [k \in 1 .. Len(path) |->
        CASE path[k] = "P" -> "p"
          [] path[k] = "D" -> "d"
          [] path[k] = "F" -> "f"
          [] path[k] = "J" -> "j"
          [] OTHER -> path[k]]

\* str.endswith(suffix)
endswith(path, suffix) ==
    /\ Len(path) >= Len(suffix)
    /\ SubSeq(path, Len(path) - Len(suffix) + 1, Len(path)) = suffix

\* Variant: the bounds 1.0 and 10.0 are rejected as well.
zoom_rejected_at_bounds(z) == z <= 10 \/ z >= 100

\* zoom < 1.0 or zoom > 10.0, the zoom counted in tenths.
zoom_rejected(z) == z < 10 \/ z > 100

\* The extension the output path must have.
output_suffix(cmd) ==
    IF cmd = "tag" THEN << ".", "p", "d", "f" >> ELSE << ".", "j", "s", "o", "n" >>

\* autotagging_pdf and create_template_json reach the else branch or the
\* zoom check raises.
arguments_rejected(cmd, a) ==
    \/ zoom_rejected(a.zoom)
    \/ ~ (/\ endswith(lower(a.input), << ".", "p", "d", "f" >>)
          /\ endswith(lower(a.output), output_suffix(cmd)))

\* Number of positional arguments the subcommand passes to the constructor of
\* its pipeline class, and number of parameters that constructor has.
constructor_arguments(cmd) == 8

constructor_parameters(cmd) == IF cmd = "tag" THEN 8 ELSE 5

\* Number of arguments _process_pdf_file_page passes to process_image, and
\* number of parameters of process_image.
process_image_arguments(cmd) == IF cmd = "tag" THEN 4 ELSE 1

process_image_parameters == << "aws_access_key_id", "aws_secret_access_key", "aws_region", "image_path" >>

\* VisualizeAmazonResults.visualize: _visualize_table_cells reads children[0]
\* of every table layout.
visualize_raises(ls) ==
    \E k \in 1 .. Len(ls) : ls[k].layout_type = "LAYOUT_TABLE" /\ Len(ls[k].children) = 0

\* The external call `step` on page `page` (0: not a page call) fails.
fails(step, page) == fault = [page |-> page, step |-> step]

\* The statement that follows `step` when it succeeds.
step_after(cmd, step) ==
    CASE step = "render" -> "detect"
      [] step = "detect" -> IF cmd = "tag" THEN "visualize" ELSE "convert"
      [] step = "visualize" -> "convert"
      [] step = "convert" -> "process_page"
      [] step = "write_template" -> IF cmd = "tag" THEN "remove_tags" ELSE "returned"
      [] step = "remove_tags" -> "remove_struct_tree"
      [] step = "remove_struct_tree" -> "load_template"
      [] step = "load_template" -> "add_tags"
      [] step = "add_tags" -> "save"
      [] step = "save" -> "returned"

\* Variant: no finally clause, the exception leaves at once.
on_raise_without_finally(step) == "raised"

\* Where an exception raised by `step` of a page goes first: the finally
\* clause of _process_pdf_file_page, or that of process_file when the page
\* view was not acquired.
on_raise(step) == IF step = "acquire_view" THEN "release_page" ELSE "release_view"

\* Variant: the exception of a page is swallowed and the loop goes on.
after_release_page_swallowing(err) == "loop"

\* After page.Release(): the exception propagates, or the loop continues.
after_release_page(err) == IF err # "" THEN "raised" ELSE "loop"

\* Variant: main does not join the thread.
join_returns_at_once(th) == TRUE

\* update_thread.join() returns once the thread has finished.
join_returns(th) == th = "finished"

\* create_json_dict_for_document: the dictionary refers to the accumulated
\* list.
create_json_dict_for_document(pages, z) ==
    [metadata |-> [version |-> "1", zoom |-> z],
     element_create |-> pages,
     pagemap |-> << [statement |-> "$if"] >>]

\* Pages with a table region: without children, with a Line only, with a
\* Table after a Line, and with a Table.
TablePages ==
    { << TypedLayout(TypedBoxes[1], [layout_type |-> "LAYOUT_TABLE", children |-> ch]) >> :
        ch \in { << >>, << Line >>, << Line, TableChild >>, << TableChild >> } }

\* The zoom arguments, in tenths: 0.9, 1.0, 2.0, 10.0 and 10.1.
ZoomArgs == { 9, 10, 20, 100, 101 }

ArgSets ==
    [zoom : ZoomArgs,
     input : { Paths.pdf, Paths.PDF, Paths.txt, Paths.nodot },
     output : { Paths.pdf, Paths.PDF, Paths.json, Paths.Json, Paths.txt }]

\* The arguments of the functional tests: default zoom, a .pdf input and the
\* output the subcommand asks for.
DefaultArgs(cmd) ==
    [zoom |-> DefaultZoom * 10, input |-> Paths.pdf,
     output |-> IF cmd = "tag" THEN Paths.pdf ELSE Paths.json]

NoFault == [page |-> 0, step |-> "none"]

\* One external call that fails: a call of a page or a call on the document.
Faults(doc) ==
    { [page |-> p, step |-> s] :
        p \in 1 .. Len(doc),
        s \in { "acquire_page", "acquire_view", "render", "detect", "visualize",
                "convert" } }
    \cup { [page |-> 0, step |-> s] :
             s \in { "open", "write_template", "remove_tags", "remove_struct_tree",
                     "load_template", "add_tags", "save" } }
    \cup { NoFault }

\* The state when `e` is called with command c, arguments a, on document doc.
StartMain(e, c, a, doc, f) ==
    /\ Idle
    /\ document = doc
    /\ command = c
    /\ entry = e
    /\ args = a
    /\ fault = f
    /\ zoom = IF e = "main" THEN 1 ELSE a.zoom \div 10
    /\ mpc = IF e = "main" THEN "main" ELSE "open"
    /\ error = ""
    /\ log = << >>
    /\ exit_code = -1
    /\ thread = "none"
    /\ page_index = 0
    /\ template_json_dict = << >>
    /\ opened = FALSE
    /\ written = FALSE

InitMain ==
    \/ \E c \in { "tag", "template" }, a \in ArgSets :
          StartMain("main", c, a, << << >> >>, NoFault)
    \/ \E e \in { "main", "process_file" }, c \in { "tag", "template" }, doc \in Documents :
          \E f \in Faults(doc) : StartMain(e, c, DefaultArgs(c), doc, f)
    \/ \E c \in { "tag", "template" },
          doc \in SeqsUpTo(TablePages \cup { << >> }, MaxPages) :
          StartMain("main", c, DefaultArgs(c), doc, NoFault)

\* main: the arguments parse, the update-check thread is started.
MainStart ==
    /\ mpc = "main"
    /\ thread' = "running"
    /\ mpc' = "validate"
    /\ UNCHANGED << rvars, tvars, command, entry, args, fault, error, log, exit_code,
                    page_index, template_json_dict, opened, written >>

\* main: parse_args exits, before any thread exists.
ParseFailure ==
    /\ mpc = "main"
    /\ exit_code' = 2
    /\ mpc' = "exited"
    /\ UNCHANGED << rvars, tvars, command, entry, args, fault, error, log, thread,
                    page_index, template_json_dict, opened, written >>

\* autotagging_pdf / create_template_json: the checks of zoom and paths.
Validate ==
    /\ mpc = "validate"
    /\ IF arguments_rejected(command, args)
       THEN error' = "Exception" /\ mpc' = "raised"
       ELSE error' = error /\ mpc' = "construct"
    /\ UNCHANGED << rvars, tvars, command, entry, args, fault, log, exit_code,
                    thread, page_index, template_json_dict, opened, written >>

\* The constructor call of the pipeline class; self.zoom = zoom.
Construct ==
    /\ mpc = "construct"
    /\ IF constructor_arguments(command) = constructor_parameters(command)
       THEN error' = error /\ mpc' = "open" /\ zoom' = args.zoom \div 10
       ELSE error' = "TypeError" /\ mpc' = "raised" /\ zoom' = zoom
    /\ UNCHANGED << document, page_number, processed, template_json_pages, table_data, cells >>
    /\ UNCHANGED << rvars, command, entry, args, fault, log, exit_code, thread,
                    page_index, template_json_dict, opened, written >>

\* process_file: GetPdfix, authorize_sdk, OpenDoc and GetNumPages.
OpenDoc ==
    /\ mpc = "open"
    /\ IF fails("open", 0)
       THEN error' = "PdfixException" /\ mpc' = "raised" /\ opened' = opened
       ELSE error' = error /\ mpc' = "loop" /\ opened' = TRUE
    /\ page_index' = 0
    /\ UNCHANGED << rvars, tvars, command, entry, args, fault, log, exit_code,
                    thread, template_json_dict, written >>

\* process_file: doc.AcquirePage(page_index); None raises outside the try.
AcquirePage ==
    /\ mpc = "loop"
    /\ page_index < Len(document)
    /\ IF fails("acquire_page", page_index + 1)
       THEN error' = "PdfixException" /\ mpc' = "raised" /\ log' = log
       ELSE /\ error' = error
            /\ mpc' = "acquire_view"
            /\ log' = Append(log, << "AcquirePage", page_index + 1 >>)
    /\ UNCHANGED << rvars, tvars, command, entry, args, fault, exit_code, thread,
                    page_index, template_json_dict, opened, written >>

\* _process_pdf_file_page: page.AcquirePageView; None raises before the try.
AcquirePageView ==
    /\ mpc = "acquire_view"
    /\ IF fails("acquire_view", page_index + 1)
       THEN /\ error' = "PdfixException"
            /\ mpc' = on_raise("acquire_view")
            /\ log' = log
       ELSE /\ error' = error
            /\ mpc' = "render"
            /\ log' = Append(log, << "AcquirePageView", page_index + 1 >>)
    /\ UNCHANGED << rvars, tvars, command, entry, args, fault, exit_code, thread,
                    page_index, template_json_dict, opened, written >>

\* _process_pdf_file_page: render_page into the temporary file.
RenderPage ==
    /\ mpc = "render"
    /\ IF fails("render", page_index + 1)
       THEN error' = "PdfixException" /\ mpc' = on_raise("render")
       ELSE error' = error /\ mpc' = step_after(command, "render")
    /\ UNCHANGED << rvars, tvars, command, entry, args, fault, log, exit_code,
                    thread, page_index, template_json_dict, opened, written >>

\* _process_pdf_file_page: process_image; the detection result is the
\* page of `document`.
ProcessImage ==
    /\ mpc = "detect"
    /\ IF process_image_arguments(command) # Len(process_image_parameters)
       THEN error' = "TypeError" /\ mpc' = on_raise("detect")
       ELSE IF fails("detect", page_index + 1)
       THEN error' = "AmazonTextractGenericException" /\ mpc' = on_raise("detect")
       ELSE error' = error /\ mpc' = step_after(command, "detect")
    /\ UNCHANGED << rvars, tvars, command, entry, args, fault, log, exit_code,
                    thread, page_index, template_json_dict, opened, written >>

\* _process_pdf_file_page of the tag pipeline: the custom and the built-in
\* visualization.
Visualize ==
    /\ mpc = "visualize"
    /\ IF visualize_raises(document[page_index + 1])
       THEN error' = "IndexError" /\ mpc' = on_raise("visualize")
       ELSE IF fails("visualize", page_index + 1)
       THEN error' = "Exception" /\ mpc' = on_raise("visualize")
       ELSE error' = error /\ mpc' = step_after(command, "visualize")
    /\ UNCHANGED << rvars, tvars, command, entry, args, fault, log, exit_code,
                    thread, page_index, template_json_dict, opened, written >>

\* _process_pdf_file_page: ConvertDocumentToDictionary.save_as_json.
Convert ==
    /\ mpc = "convert"
    /\ IF fails("convert", page_index + 1)
       THEN error' = "Exception" /\ mpc' = on_raise("convert")
       ELSE error' = error /\ mpc' = step_after(command, "convert")
    /\ UNCHANGED << rvars, tvars, command, entry, args, fault, log, exit_code,
                    thread, page_index, template_json_dict, opened, written >>

\* _process_pdf_file_page: templateJsonCreator.process_page(result,
\* page_number, page_view) is entered.
ProcessPage ==
    /\ mpc = "process_page"
    /\ EnterPage(page_index + 1)

\* _process_pdf_file_page, finally: page_view.Release().
ReleaseView ==
    /\ mpc = "release_view"
    /\ log' = Append(log, << "ReleaseView", page_index + 1 >>)
    /\ mpc' = "release_page"
    /\ UNCHANGED << rvars, tvars, command, entry, args, fault, error, exit_code,
                    thread, page_index, template_json_dict, opened, written >>

\* process_file, finally: page.Release(); then the exception propagates or
\* the loop takes the next page.
ReleasePage ==
    /\ mpc = "release_page"
    /\ log' = Append(log, << "ReleasePage", page_index + 1 >>)
    /\ mpc' = after_release_page(error)
    /\ page_index' = IF after_release_page(error) = "loop" THEN page_index + 1 ELSE page_index
    /\ error' = IF after_release_page(error) = "loop" THEN "" ELSE error
    /\ UNCHANGED << rvars, tvars, command, entry, args, fault, exit_code, thread,
                    template_json_dict, opened, written >>

\* process_file: the page loop is over.
LoopEnd ==
    /\ mpc = "loop"
    /\ page_index >= Len(document)
    /\ mpc' = "create_dict"
    /\ UNCHANGED << rvars, tvars, command, entry, args, fault, error, log, exit_code,
                    thread, page_index, template_json_dict, opened, written >>

\* process_file: create_json_dict_for_document(self.zoom).
CreateJsonDict ==
    /\ mpc = "create_dict"
    /\ template_json_dict' = create_json_dict_for_document(template_json_pages, zoom)
    /\ mpc' = "write_template"
    /\ UNCHANGED << rvars, tvars, command, entry, args, fault, error, log, exit_code,
                    thread, page_index, opened, written >>

\* process_file: the template is written to a file, which is the final
\* output of the template pipeline.
WriteTemplate ==
    /\ mpc = "write_template"
    /\ IF fails("write_template", 0)
       THEN error' = "OSError" /\ mpc' = "raised" /\ written' = written
       ELSE /\ error' = error
            /\ mpc' = step_after(command, "write_template")
            /\ written' = (written \/ command = "template")
    /\ UNCHANGED << rvars, tvars, command, entry, args, fault, log, exit_code,
                    thread, page_index, template_json_dict, opened >>

\* _autotag_using_template: doc.RemoveTags().
RemoveTags ==
    /\ mpc = "remove_tags"
    /\ IF fails("remove_tags", 0)
       THEN error' = "PdfixException" /\ mpc' = "raised" /\ log' = log
       ELSE /\ error' = error
            /\ mpc' = step_after(command, "remove_tags")
            /\ log' = Append(log, << "RemoveTags", 0 >>)
    /\ UNCHANGED << rvars, tvars, command, entry, args, fault, exit_code, thread,
                    page_index, template_json_dict, opened, written >>

\* _autotag_using_template: doc.RemoveStructTree().
RemoveStructTree ==
    /\ mpc = "remove_struct_tree"
    /\ IF fails("remove_struct_tree", 0)
       THEN error' = "PdfixException" /\ mpc' = "raised" /\ log' = log
       ELSE /\ error' = error
            /\ mpc' = step_after(command, "remove_struct_tree")
            /\ log' = Append(log, << "RemoveStructTree", 0 >>)
    /\ UNCHANGED << rvars, tvars, command, entry, args, fault, exit_code, thread,
                    page_index, template_json_dict, opened, written >>

\* _autotag_using_template: the template goes through a memory stream into
\* doc.GetTemplate().LoadFromStream; the stream is destroyed.
LoadTemplate ==
    /\ mpc = "load_template"
    /\ IF fails("load_template", 0)
       THEN error' = "PdfixException" /\ mpc' = "raised" /\ log' = log
       ELSE /\ error' = error
            /\ mpc' = step_after(command, "load_template")
            /\ log' = Append(log, << "LoadTemplate", 0 >>)
    /\ UNCHANGED << rvars, tvars, command, entry, args, fault, exit_code, thread,
                    page_index, template_json_dict, opened, written >>

\* _autotag_using_template: doc.AddTags(tagsParams).
AddTags ==
    /\ mpc = "add_tags"
    /\ IF fails("add_tags", 0)
       THEN error' = "PdfixException" /\ mpc' = "raised" /\ log' = log
       ELSE /\ error' = error
            /\ mpc' = step_after(command, "add_tags")
            /\ log' = Append(log, << "AddTags", 0 >>)
    /\ UNCHANGED << rvars, tvars, command, entry, args, fault, exit_code, thread,
                    page_index, template_json_dict, opened, written >>

\* process_file: doc.Save(output_path, kSaveFull).
Save ==
    /\ mpc = "save"
    /\ IF fails("save", 0)
       THEN error' = "PdfixException" /\ mpc' = "raised" /\ written' = written
       ELSE error' = error /\ mpc' = step_after(command, "save") /\ written' = TRUE
    /\ log' = Append(log, << "Save", 0 >>)
    /\ UNCHANGED << rvars, tvars, command, entry, args, fault, exit_code, thread,
                    page_index, template_json_dict, opened >>

\* main: the subcommand has returned or raised; except prints and calls
\* sys.exit(1), then the finally clause runs.
EnterFinally ==
    /\ entry = "main"
    /\ mpc \in { "raised", "returned" }
    /\ mpc' = "finally"
    /\ UNCHANGED << rvars, tvars, command, entry, args, fault, error, log, exit_code,
                    thread, page_index, template_json_dict, opened, written >>

\* main, finally: update_thread.join(); then the process exits.
Join ==
    /\ mpc = "finally"
    /\ join_returns(thread)
    /\ mpc' = "exited"
    /\ exit_code' = IF error # "" THEN 1 ELSE 0
    /\ UNCHANGED << rvars, tvars, command, entry, args, fault, error, log, thread,
                    page_index, template_json_dict, opened, written >>

\* The update-check thread runs to its end.
UpdateCheck ==
    /\ thread = "running"
    /\ thread' = "finished"
    /\ UNCHANGED << rvars, tvars, command, entry, args, mpc, fault, error, log,
                    exit_code, page_index, template_json_dict, opened, written >>

NextMain ==
    \/ MainStart
    \/ ParseFailure
    \/ Validate
    \/ Construct
    \/ OpenDoc
    \/ AcquirePage
    \/ AcquirePageView
    \/ RenderPage
    \/ ProcessImage
    \/ Visualize
    \/ Convert
    \/ ProcessPage
    \/ NextCall
    \/ FinishPage
    \/ ReleaseView
    \/ ReleasePage
    \/ LoopEnd
    \/ CreateJsonDict
    \/ WriteTemplate
    \/ RemoveTags
    \/ RemoveStructTree
    \/ LoadTemplate
    \/ AddTags
    \/ Save
    \/ EnterFinally
    \/ Join
    \/ UpdateCheck

SpecMain == InitMain /\ [][NextMain]_vars

\* Area of the rectangular intersection of two regions' bounding boxes, as
\* _bboxes_overlaping_percentages computes it.
IntersectionArea(r1, r2) ==
    LET b1 == convert_bbox(r1)
        b2 == convert_bbox(r2)
        Min(a, b) == IF a < b THEN a ELSE b
        Max(a, b) == IF a > b THEN a ELSE b
        x_overlap == Max(0, Min(b1[3], b2[3]) - Max(b1[1], b2[1]))
        y_overlap == Max(0, Min(b1[4], b2[4]) - Max(b1[2], b2[2]))
    IN  x_overlap * y_overlap

ZeroArea(r) == r.width = 0 \/ r.height = 0

\* C11: two regions are joined by an overlap edge exactly when their
\* rectangles have an intersection of positive area; rectangles that only
\* touch along an edge or at a corner are not joined.
C11_PositiveIntersection ==
    pc # "start" =>
        \A i, j \in Nodes :
            i < j =>
                ((\E k \in 1 .. Len(overlaps) : overlaps[k] = << i, j >>)
                    <=> IntersectionArea(Region(layouts, i), Region(layouts, j)) > 0)

\* C12: a region whose bounding box has zero area overlaps no other region,
\* is never skipped and never makes another region be skipped.
C12_ZeroAreaNeverOverlaps ==
    pc = "done" =>
        \A i \in Nodes :
            ZeroArea(Region(layouts, i)) =>
                /\ i \notin skipping
                /\ i \notin overlapping_bboxes_set
                /\ \A j \in skipping : ~ is_direct_neightbour(i, j, overlaps)


\* The descriptors of `cells` at grid position (row, col).
CellsAt(row, col) ==
    { k \in 1 .. Len(cells) : cells[k].cell_row = Str(row) /\ cells[k].cell_column = Str(col) }

IsPlaceholder(cell) ==
    /\ cell.bbox = << Str(0), Str(0), Str(0), Str(0) >>
    /\ cell.cell_row_span = Str(0)
    /\ cell.cell_column_span = Str(0)

TableDone == call = "table" /\ pc = "done"

\* C13: _create_table_cells returns exactly row_count * column_count
\* descriptors, one for every grid position (1 .. row_count, 1 .. column_count);
\* a position without a detected cell gets a placeholder with a zero bounding
\* box and zero spans.
C13_GridComplete ==
    TableDone =>
        /\ Len(cells) = table_data.row_count * table_data.column_count
        /\ \A row \in 1 .. table_data.row_count, col \in 1 .. table_data.column_count :
              /\ Cardinality(CellsAt(row, col)) = 1
              /\ ~ is_detected(table_data, row, col)
                    => \A k \in CellsAt(row, col) : IsPlaceholder(cells[k])

\* A 2 x 2 table with one detected cell at (1, 1): four descriptors, three of
\* them placeholders.
C13_Witness ==
    /\ TableDone
    /\ table_data.row_count = 2
    /\ table_data.column_count = 2
    /\ Len(table_data.children) = 1
    /\ table_data.children[1].row_index = 1
    /\ table_data.children[1].col_index = 1
    /\ Len(cells) = 4
    /\ Cardinality({ k \in 1 .. Len(cells) : IsPlaceholder(cells[k]) }) = 3

\* C14 as stated: the descriptor of the k-th detected TableCell carries its
\* row_index and col_index increased by one.
C14_ShiftedByOne ==
    TableDone =>
        \A k \in 1 .. Len(table_data.children) :
            /\ cells[k].cell_row = Str(table_data.children[k].row_index + 1)
            /\ cells[k].cell_column = Str(table_data.children[k].col_index + 1)

\* C14: the descriptor of the k-th detected TableCell carries its row_index
\* and col_index unchanged, both at least 1, and the placeholder scan adds no
\* placeholder at that grid position.
C14_IndicesPassedThrough ==
    TableDone =>
        \A k \in 1 .. Len(table_data.children) :
            LET cell == table_data.children[k]
            IN  /\ cells[k].cell_row = Str(cell.row_index)
                /\ cells[k].cell_column = Str(cell.col_index)
                /\ cell.row_index >= 1
                /\ cell.col_index >= 1
                /\ ~ IsPlaceholder(cells[k])
                /\ CellsAt(cell.row_index, cell.col_index) = {k}

\* A detected cell at the last grid position of a table that also has a
\* placeholder.
C14_Witness ==
    /\ TableDone
    /\ \E k \in 1 .. Len(table_data.children) :
          /\ table_data.children[k].row_index = table_data.row_count
          /\ table_data.children[k].col_index = table_data.column_count
          /\ cells[k].cell_row = Str(table_data.row_count)
    /\ \E k \in 1 .. Len(cells) : IsPlaceholder(cells[k])


\* process_page has returned for page page_number; layouts and skipping are
\* still those of that page.
PageDone == call = "page" /\ pc = "idle" /\ page_number > 0

LastElements == template_json_pages[Len(template_json_pages)].elements

\* The regions of the page that the overlap resolver keeps.
Surviving == Indices(layouts) \ skipping

HasTableChild(layout) ==
    \E k \in 1 .. Len(layout.children) : layout.children[k].kind = "Table"

StructureLess(layout) == layout.layout_type = "LAYOUT_TABLE" /\ ~ HasTableChild(layout)

\* The page-space box of a region, padded, as the strings of a descriptor.
PaddedBBox(layout) == bbox_strings(RectToPage(zoom, dev_rect(zoom, layout, offset)))

\* The positions of the page's elements that carry the box of region i.
ElementsOf(i) ==
    { k \in 1 .. Len(LastElements) : LastElements[k].bbox = PaddedBBox(Region(layouts, i)) }

\* C15: a surviving table region without a Table child gets no element, every
\* other surviving region gets one, and a table region whose Table child comes
\* after other children is emitted as a table.
C15_MissingTableStructure ==
    PageDone =>
        \A i \in Surviving :
            LET layout == Region(layouts, i)
            IN  /\ StructureLess(layout) => ElementsOf(i) = {}
                /\ ~ StructureLess(layout) => Cardinality(ElementsOf(i)) = 1
                /\ (layout.layout_type = "LAYOUT_TABLE" /\ HasTableChild(layout))
                      => \A k \in ElementsOf(i) : LastElements[k].type = "pde_table"

\* A table with only a Line child is dropped and, on the same page, a table
\* whose Table child follows a Line is emitted.
C15_Witness ==
    /\ PageDone
    /\ Len(LastElements) = 1
    /\ LastElements[1].type = "pde_table"
    /\ \E i, j \in Surviving :
          /\ StructureLess(Region(layouts, i))
          /\ Region(layouts, i).children # << >>
          /\ Region(layouts, j).layout_type = "LAYOUT_TABLE"
          /\ Region(layouts, j).children[1].kind = "Line"
          /\ ElementsOf(j) = {1}

\* C16: between two pages the template holds one descriptor per processed
\* page, and a processed page without regions has exactly one descriptor,
\* with that page's number and no elements.
C16_EmptyPage ==
    (call = "page" /\ pc = "idle") =>
        /\ Len(template_json_pages) = Cardinality(processed)
        /\ \A p \in processed :
              document[p] = << >> =>
                  /\ Cardinality({ k \in 1 .. Len(template_json_pages) :
                                     template_json_pages[k].query = p }) = 1
                  /\ \A k \in 1 .. Len(template_json_pages) :
                        template_json_pages[k].query = p =>
                            /\ template_json_pages[k].elements = << >>
                            /\ template_json_pages[k].comment = << "Page", p >>

\* Both pages of a document processed, the first of them empty.
C16_Witness ==
    /\ call = "page"
    /\ pc = "idle"
    /\ Len(document) = 2
    /\ document[1] = << >>
    /\ processed = {1, 2}
    /\ Len(template_json_pages) = 2
    /\ template_json_pages[1].elements = << >>

\* C17: a page-number region gets the footer flag exactly if the top of its
\* page-space box, top / zoom, is below half the page height.
C17_FooterBelowHalfPage ==
    PageDone =>
        \A i \in Surviving :
            Region(layouts, i).layout_type = "LAYOUT_PAGE_NUMBER" =>
                \A k \in ElementsOf(i) :
                    LET top == RectToPage(zoom, dev_rect(zoom, Region(layouts, i), offset)).top
                    IN  (LastElements[k].flag = "footer|artifact|no_join|no_split")
                            <=> (2 * top < zoom * PageSize.height)

\* The element type and marks the dispatch table gives a layout type.
ExpectedElement(layout, element) ==
    LET t == layout.layout_type
        artifact == element.flag \in { "footer|artifact|no_join|no_split",
                                       "header|artifact|no_join|no_split" }
    IN  CASE t = "LAYOUT_FIGURE" -> element.type = "pde_image"
          [] t \in { "LAYOUT_HEADER", "LAYOUT_FOOTER", "LAYOUT_PAGE_NUMBER" } ->
                element.type = "pde_text" /\ artifact
          [] t = "LAYOUT_LIST" -> element.type = "pde_list"
          [] t = "LAYOUT_TABLE" -> element.type = "pde_table"
          [] t = "LAYOUT_SECTION_HEADER" ->
                element.type = "pde_text" /\ element.heading = "h1"
          [] t = "LAYOUT_TITLE" -> element.type = "pde_text" /\ element.tag = "Title"
          [] OTHER ->
                /\ element.type = "pde_text"
                /\ element.heading = ""
                /\ element.tag = ""
                /\ ~ artifact

\* C18: every surviving region that is not a table without structure yields
\* exactly one element, of the type the dispatch table gives (plain text for
\* an unrecognized type), and the number of elements is the number of regions
\* minus the skipped ones minus the surviving tables without structure.
C18_DispatchTotal ==
    PageDone =>
        /\ Len(LastElements) =
              Len(layouts) - Cardinality(skipping)
                  - Cardinality({ i \in Surviving : StructureLess(Region(layouts, i)) })
        /\ \A i \in Surviving :
              ~ StructureLess(Region(layouts, i)) =>
                  /\ Cardinality(ElementsOf(i)) = 1
                  /\ \A k \in ElementsOf(i) :
                        ExpectedElement(Region(layouts, i), LastElements[k])

\* A page of two overlapping regions: one is skipped, the other, of an
\* unrecognized type, is emitted as text.
C18_Witness ==
    /\ PageDone
    /\ Len(layouts) = 2
    /\ Cardinality(skipping) = 1
    /\ Len(LastElements) = 1
    /\ LastElements[1].type = "pde_text"
    /\ \E i \in Surviving : Region(layouts, i).layout_type = "LAYOUT_KEY_VALUE"

ElementTop(element) == Float(element.bbox[4])

ElementLeft(element) == Float(element.bbox[1])

\* How often element e occurs in the sequence.
Count(seq, e) == Cardinality({ k \in 1 .. Len(seq) : seq[k] = e })

\* C19: of two elements of a page the one with the greater top comes first,
\* of two with equal top the one with the smaller left comes first, and the
\* page's elements are a permutation of the elements built from its regions.
C19_ReadingOrder ==
    PageDone =>
        /\ \A a, b \in 1 .. Len(LastElements) :
              /\ ElementTop(LastElements[a]) > ElementTop(LastElements[b]) => a < b
              /\ (ElementTop(LastElements[a]) = ElementTop(LastElements[b])
                    /\ ElementLeft(LastElements[a]) < ElementLeft(LastElements[b])) => a < b
        /\ LET built == built_elements(zoom, layouts, skipping)
           IN  /\ Len(built) = Len(LastElements)
               /\ \A k \in 1 .. Len(built) :
                     Count(LastElements, built[k]) = Count(built, built[k])

\* Two elements of equal top that were built right to left.
C19_Witness ==
    /\ PageDone
    /\ Len(LastElements) = 2
    /\ ElementTop(LastElements[1]) = ElementTop(LastElements[2])
    /\ ElementLeft(LastElements[1]) < ElementLeft(LastElements[2])
    /\ built_elements(zoom, layouts, skipping) = << LastElements[2], LastElements[1] >>

\* C20: once process_page has been called for every page, in whatever order,
\* the descriptors are in ascending page number.
C20_PageOrderPreserved ==
    (call = "page" /\ pc = "idle" /\ processed = 1 .. Len(document)) =>
        \A k \in 1 .. Len(template_json_pages) : template_json_pages[k].query = k


\* C24: every skipped region directly overlaps a region that is not skipped
\* and whose confidence is at least its own.
C24_SkippedHasRetainedDominator ==
    pc = "done" =>
        \A s \in skipping :
            \E r \in Nodes \ skipping : Edge(s, r) /\ Conf(r) >= Conf(s)

\* The grid positions inside the span of the k-th detected cell.
SpanOf(k) ==
    LET cell == table_data.children[k]
    IN  (cell.row_index .. (cell.row_index + cell.row_span - 1))
            \X (cell.col_index .. (cell.col_index + cell.col_span - 1))

\* C26: no placeholder is emitted for a grid position inside the span of a
\* detected cell.
C26_NoPlaceholderInsideSpan ==
    TableDone =>
        \A k \in 1 .. Len(table_data.children) :
            \A pos \in SpanOf(k) :
                \A d \in CellsAt(pos[1], pos[2]) : ~ IsPlaceholder(cells[d])


\* One step of the accumulator: the list is left alone or gets one descriptor
\* at its end; create_json_dict_for_document leaves it alone.
C21_Step ==
    /\ \/ template_json_pages' = template_json_pages
       \/ /\ Len(template_json_pages') = Len(template_json_pages) + 1
          /\ SubSeq(template_json_pages', 1, Len(template_json_pages)) = template_json_pages
          /\ pc = "done"
    /\ mpc = "create_dict" => template_json_pages' = template_json_pages

\* Under the loop of process_file the list holds the descriptors of the pages
\* 1 .. k in ascending order, k being the number of pages processed.
C21_Sequential ==
    mpc # "none" =>
        /\ Len(template_json_pages) = Cardinality(processed)
        /\ processed = 1 .. Cardinality(processed)
        /\ \A k \in 1 .. Len(template_json_pages) : template_json_pages[k].query = k
        /\ mpc = "loop" => Len(template_json_pages) = page_index

\* C21: the accumulator is append-only, holds the pages 1 .. k in ascending
\* order after k pages of process_file's loop, and is left unchanged by
\* create_json_dict_for_document.
C21_AppendOnly == [][C21_Step]_vars /\ []C21_Sequential

\* Two pages accumulated and the document dictionary built from them.
C21_Witness ==
    /\ mpc = "write_template"
    /\ Len(template_json_pages) = 2
    /\ template_json_pages[2].query = 2
    /\ template_json_dict.element_create = template_json_pages

\* The arguments were parsed and main has run the subcommand to the end.
MainExited == entry = "main" /\ mpc = "exited" /\ thread # "none"

\* C22: the template subcommand, with default zoom, a .pdf input, a .json
\* output and no failing collaborator, processes every page, writes the
\* template file and exits with status 0.
C22_TemplateSucceeds ==
    (MainExited /\ command = "template" /\ args = DefaultArgs("template")
        /\ fault = NoFault) =>
        /\ exit_code = 0
        /\ written
        /\ Len(template_json_pages) = Len(document)

\* The calls on the document that the log holds, pages left out.
DocCalls == SelectSeq(log, LAMBDA e : e[2] = 0)

\* C23: the tag subcommand, with no failing collaborator, processes every
\* page, then removes tags and structure tree, loads the template, adds the
\* tags and saves once, and exits with status 0; Save is never called unless
\* every earlier step succeeded.
C23_TagOrder ==
    /\ (MainExited /\ command = "tag" /\ args = DefaultArgs("tag") /\ fault = NoFault) =>
          /\ exit_code = 0
          /\ processed = 1 .. Len(document)
          /\ DocCalls = << << "RemoveTags", 0 >>, << "RemoveStructTree", 0 >>,
                           << "LoadTemplate", 0 >>, << "AddTags", 0 >>, << "Save", 0 >> >>
    /\ (\E k \in 1 .. Len(log) : log[k] = << "Save", 0 >>) =>
          /\ processed = 1 .. Len(document)
          /\ SubSeq(DocCalls, 1, 4) = << << "RemoveTags", 0 >>, << "RemoveStructTree", 0 >>,
                                        << "LoadTemplate", 0 >>, << "AddTags", 0 >> >>
          /\ Len(DocCalls) = 5

\* A table region without children, or whose first child is no Table.
MissingStructureFirst(layout) ==
    /\ layout.layout_type = "LAYOUT_TABLE"
    /\ layout.children = << >> \/ layout.children[1].kind # "Table"

\* C25: in the tag pipeline a page with a table region that has no children,
\* or whose first child is not the Table, is processed without raising and
\* its descriptor is appended.
C25_MissingStructureNonFatal ==
    (command = "tag" /\ fault = NoFault /\ opened) =>
        \A p \in 1 .. Len(document) :
            (\E k \in 1 .. Len(document[p]) : MissingStructureFirst(document[p][k])) =>
                /\ (page_index = p - 1 => error = "")
                /\ (page_index >= p =>
                      \E k \in 1 .. Len(template_json_pages) :
                          template_json_pages[k].query = p)

\* Page p raises: a call of the page fails, the visualizer cannot read a
\* table, or process_image is called with the wrong number of arguments.
PageRaises(p) ==
    \/ fault.page = p /\ fault.step \in { "acquire_page", "acquire_view", "render",
                                           "detect", "convert" }
    \/ command = "tag" /\ fault.page = p /\ fault.step = "visualize"
    \/ command = "tag" /\ \E k \in 1 .. Len(document[p]) :
          document[p][k].layout_type = "LAYOUT_TABLE" /\ document[p][k].children = << >>
    \/ command = "template"

\* C27: once the processing of a page has raised, no later page is processed,
\* the statements after the loop are not reached, the final output is not
\* written, and main exits with status 1.
C27_PageFailurePropagates ==
    opened =>
        \A p \in 1 .. Len(document) :
            PageRaises(p) =>
                /\ page_index < p
                /\ processed \subseteq 1 .. (p - 1)
                /\ \A k \in 1 .. Len(log) : log[k][2] <= p
                /\ ~ written
                /\ template_json_dict = << >>
                /\ mpc \notin { "create_dict", "write_template", "remove_tags",
                                "remove_struct_tree", "load_template", "add_tags",
                                "save", "returned" }
                /\ mpc = "exited" => exit_code = 1

\* The rendering of page 1 of a two-page document failed in the tag pipeline:
\* page 1 was released, page 2 was never acquired, main exited with 1.
C27_Witness ==
    /\ MainExited
    /\ command = "tag"
    /\ Len(document) = 2
    /\ fault = [page |-> 1, step |-> "render"]
    /\ exit_code = 1
    /\ log = << << "AcquirePage", 1 >>, << "AcquirePageView", 1 >>,
                << "ReleaseView", 1 >>, << "ReleasePage", 1 >> >>
    /\ ~ written

\* The arguments the checks must refuse: zoom below 1.0 or above 10.0, an
\* input that is no .pdf, an output that is no .pdf (tag) or .json (template),
\* whatever the case of the letters.
MustBeRefused(cmd, a) ==
    \/ a.zoom < 10
    \/ a.zoom > 100
    \/ a.input \notin { Paths.pdf, Paths.PDF }
    \/ cmd = "tag" /\ a.output \notin { Paths.pdf, Paths.PDF }
    \/ cmd = "template" /\ a.output \notin { Paths.json, Paths.Json }

\* C28: with arguments that must be refused the subcommand raises before the
\* pipeline object is built and before any document is opened, and main exits
\* with 1; arguments that need not be refused, the bounds 1.0 and 10.0
\* included, pass the checks.
C28_ValidationFirst ==
    entry = "main" =>
        /\ MustBeRefused(command, args) =>
              /\ ~ opened
              /\ mpc \in { "main", "validate", "raised", "finally", "exited" }
              /\ MainExited => exit_code = 1
        /\ (~ MustBeRefused(command, args) /\ ~ opened) => error # "Exception"

\* A zoom of 10.1 was refused.
C28_Witness ==
    /\ MainExited
    /\ args.zoom = 101
    /\ args.input = Paths.PDF
    /\ error = "Exception"
    /\ exit_code = 1
    /\ ~ opened

\* How often the call `name` on page p is in the log, and where.
Calls(name, p) == { k \in 1 .. Len(log) : log[k] = << name, p >> }

\* process_file has returned or raised.
FileDone == mpc \in { "raised", "returned", "finally", "exited" }

\* C29: a page and a page view are acquired at most once and released at most
\* as often as acquired, the page after its view; when process_file is left,
\* by return or by exception, every acquired page and every acquired view has
\* been released exactly once.
C29_ReleasedExactlyOnce ==
    \A p \in 1 .. Len(document) :
        /\ Cardinality(Calls("AcquirePage", p)) <= 1
        /\ Cardinality(Calls("AcquirePageView", p)) <= 1
        /\ Cardinality(Calls("ReleasePage", p)) <= Cardinality(Calls("AcquirePage", p))
        /\ Cardinality(Calls("ReleaseView", p)) <= Cardinality(Calls("AcquirePageView", p))
        /\ \A r \in Calls("ReleasePage", p) :
              /\ \A a \in Calls("AcquirePage", p) : a < r
              /\ \A v \in Calls("ReleaseView", p) : v < r
              /\ Cardinality(Calls("ReleaseView", p)) = Cardinality(Calls("AcquirePageView", p))
        /\ \A v \in Calls("ReleaseView", p) : \A a \in Calls("AcquirePageView", p) : a < v
        /\ FileDone =>
              /\ Cardinality(Calls("ReleasePage", p)) = Cardinality(Calls("AcquirePage", p))
              /\ Cardinality(Calls("ReleaseView", p)) = Cardinality(Calls("AcquirePageView", p))

\* process_file of the template pipeline has raised on page 1 after the view
\* was acquired: view and page are released, in this order.
C29_Witness ==
    /\ command = "template"
    /\ mpc = "raised"
    /\ error = "TypeError"
    /\ log = << << "AcquirePage", 1 >>, << "AcquirePageView", 1 >>,
                << "ReleaseView", 1 >>, << "ReleasePage", 1 >> >>

\* C30: when the process exits after main has started the update-check
\* thread, the thread has finished.
C30_ThreadJoined ==
    (entry = "main" /\ mpc = "exited") =>
        /\ thread \in { "none", "finished" }
        /\ thread = "none" <=> exit_code = 2

\* The subcommand raised and the process exited with 1 after the thread ended.
C30_Witness ==
    /\ entry = "main"
    /\ mpc = "exited"
    /\ exit_code = 1
    /\ error # ""
    /\ thread = "finished"

====
